---- MODULE Spec2Model ----
(***************************************************************************)
(* Model of android-activity's native_activity glue layer (glue.rs): the   *)
(* mutex-guarded NativeActivityState, the command pipe between the JVM     *)
(* (host) thread and the Rust main (application) thread, and the condvar   *)
(* rendezvous of the host-side setters.                                    *)
(*                                                                         *)
(* Granularity: every critical section of the one mutex is one action.     *)
(* A host call is therefore "lock .. first cond.wait or return", and each  *)
(* wake-up is "re-acquire .. next cond.wait or return"; the application    *)
(* thread's read_cmd, pre_exec_cmd and post_exec_cmd are one action each.  *)
(* The user callback between pre and post runs outside the mutex.          *)
(***************************************************************************)
EXTENDS Integers, Sequences, FiniteSets, TLC

(***************************************************************************)
(* Bounds of the model.                                                    *)
(***************************************************************************)
\* Commands the pipe holds before the host issues no further call (the real
\* pipe buffer is far larger; see write_cmd).
MaxQueued == 2
\* Longest saved-state byte sequence.
MaxStateLen == 1
\* Addresses malloc can hand out.
NumBufs == 3

\* Input domains of the host callbacks.
Queues == {1}
Windows == {1, 2}
ByteVals == {0, 1}
ConfigVals == {0, 1}
\* What the platform passes to ANativeActivity_onCreate as saved state:
\* nothing, or the bytes of an earlier run.
Restored == {<< >>, << <<1>> >>}

(***************************************************************************)
(* AppCmd and its wire encoding (glue.rs 25-68).                           *)
(***************************************************************************)
InputQueueChanged == 0
InitWindow == 1
TermWindow == 2
WindowResized == 3
WindowRedrawNeeded == 4
ContentRectChanged == 5
GainedFocus == 6
LostFocus == 7
ConfigChanged == 8
LowMemory == 9
Start == 10
Resume == 11
SaveState == 12
Pause == 13
Stop == 14
Destroy == 15

AppCmdNames ==
    << "InputQueueChanged", "InitWindow", "TermWindow", "WindowResized",
       "WindowRedrawNeeded", "ContentRectChanged", "GainedFocus", "LostFocus",
       "ConfigChanged", "LowMemory", "Start", "Resume", "SaveState", "Pause",
       "Stop", "Destroy" >>

AppCmd == { AppCmdNames[i] : i \in 1..16 }

\* An encoding that gives two variants one code.
AsI8Clash(cmd) == IF cmd = "LowMemory" THEN ConfigChanged ELSE 0

\* `cmd as i8`: the discriminant of the enum variant.
AsI8(cmd) ==
    CASE cmd = "InputQueueChanged" -> InputQueueChanged
      [] cmd = "InitWindow" -> InitWindow
      [] cmd = "TermWindow" -> TermWindow
      [] cmd = "WindowResized" -> WindowResized
      [] cmd = "WindowRedrawNeeded" -> WindowRedrawNeeded
      [] cmd = "ContentRectChanged" -> ContentRectChanged
      [] cmd = "GainedFocus" -> GainedFocus
      [] cmd = "LostFocus" -> LostFocus
      [] cmd = "ConfigChanged" -> ConfigChanged
      [] cmd = "LowMemory" -> LowMemory
      [] cmd = "Start" -> Start
      [] cmd = "Resume" -> Resume
      [] cmd = "SaveState" -> SaveState
      [] cmd = "Pause" -> Pause
      [] cmd = "Stop" -> Stop
      [] cmd = "Destroy" -> Destroy

\* The Err(()) of TryFrom<i8>.
Err == "Err"

\* A decoder that accepts a spurious byte as the last variant.
TryFromI8Lenient(value) ==
    IF value \in 0..15 THEN AppCmdNames[value + 1] ELSE "Destroy"

\* impl TryFrom<i8> for AppCmd.
TryFromI8(value) ==
    CASE value = 0 -> "InputQueueChanged"
      [] value = 1 -> "InitWindow"
      [] value = 2 -> "TermWindow"
      [] value = 3 -> "WindowResized"
      [] value = 4 -> "WindowRedrawNeeded"
      [] value = 5 -> "ContentRectChanged"
      [] value = 6 -> "GainedFocus"
      [] value = 7 -> "LostFocus"
      [] value = 8 -> "ConfigChanged"
      [] value = 9 -> "LowMemory"
      [] value = 10 -> "Start"
      [] value = 11 -> "Resume"
      [] value = 12 -> "SaveState"
      [] value = 13 -> "Pause"
      [] value = 14 -> "Stop"
      [] value = 15 -> "Destroy"
      [] OTHER -> Err

\* enum State, without Init for the values a host callback requests.
States == {"Init", "Start", "Resume", "Pause", "Stop"}
\* The result of the match arm that panics.
Panic == "Panic"
SettableStates == {"Start", "Resume", "Pause", "Stop"}
\* The discriminant of a State, as the callbacks pass it by value.
StateOrd(state) ==
    CASE state = "Init" -> 0
      [] state = "Start" -> 1
      [] state = "Resume" -> 2
      [] state = "Pause" -> 3
      [] state = "Stop" -> 4

(***************************************************************************)
(* Values.                                                                 *)
(***************************************************************************)
\* ptr::null_mut() / Option::None of a handle.
NULL == 0
\* The fd value notify_destroyed stores after close.
ClosedFd == -1
\* msgpipe[0] and msgpipe[1] as returned by pipe().
PipeRd == 3
PipeWr == 4

\* Option<T> as a sequence of at most one element.
None == << >>
Some(x) == << x >>

\* The values of an i8.
I8 == -128..127

ByteSeqs == UNION { [1..n -> ByteVals] : n \in 0..MaxStateLen }
BufIds == 1..NumBufs
\* Heap cell of an address that is not allocated.
Unalloc == << -1 >>
NoCmd == "None"

VARIABLES
    \* NativeActivityState (glue.rs 198-216)
    msg_read, msg_write, config, saved_state, saved_state_size,
    input_queue, window, activity_state, destroy_requested, running,
    state_saved, destroyed, pending_input_queue, pending_window,
    \* the process around it
    channel,          \* bytes in the pipe, oldest first, each tagged with
                      \* whether the host call in progress wrote it
    heap,             \* malloc'ed blocks: address -> bytes, or Unalloc
    looper_attached,  \* the input queue attached to the looper, or NULL
    sysConfig,        \* the asset manager's current configuration
    strong,           \* Arc strong count of WaitableNativeActivityState
    weak,             \* Arc weak count: one held by the strong handles
                      \* together, one per Weak; 0 = allocation released
    \* host (JVM main) thread
    hostPc, hostOp, hostArg, hostRet, notified,
    \* application (Rust main) thread
    appPc, appCmd, appMine,
    \* observation
    stored,           \* argument of the set_saved_state of this callback
    errlog            \* kinds of log::error! emitted so far

sharedVars ==
    << msg_read, msg_write, config, saved_state, saved_state_size,
       input_queue, window, activity_state, destroy_requested, running,
       state_saved, destroyed, pending_input_queue, pending_window >>
envVars == << channel, heap, looper_attached, sysConfig, strong, weak >>
hostVars == << hostPc, hostOp, hostArg, hostRet, notified >>
appVars == << appPc, appCmd, appMine >>
obsVars == << stored, errlog >>
vars == << sharedVars, envVars, hostVars, appVars, obsVars >>

NullRet == << NULL, 0 >>

(***************************************************************************)
(* Helpers of NativeActivityState.                                         *)
(***************************************************************************)
Entry(cmd) == [b |-> AsI8(cmd), mine |-> TRUE]

\* write_cmd: one byte appended to the pipe; a write on a closed descriptor
\* fails with a non-transient error and the command is dropped.  EINTR is
\* retried inside the loop and so is not a separate outcome.
write_cmd(ch, fd, cmd) ==
    IF fd = ClosedFd THEN ch ELSE Append(ch, Entry(cmd))

\* log::error!("Failure writing NativeActivityGlue cmd") of n attempted writes.
write_errlog(log, fd, n) ==
    IF fd = ClosedFd /\ n > 0 THEN log \cup {"write"} ELSE log

\* A free_saved_state that forgets libc::free.
free_saved_state_leak(h, p) == h

\* free_saved_state, on the heap: libc::free of a non-null saved_state.
free_saved_state(h, p) ==
    IF p # NULL THEN [h EXCEPT ![p] = Unalloc] ELSE h

\* libc::malloc: the lowest free address.  On the target (bionic) malloc(0)
\* returns a unique non-null pointer like any other size.
malloc(h) ==
    IF \E a \in BufIds : h[a] = Unalloc
    THEN CHOOSE a \in BufIds : h[a] = Unalloc /\ \A c \in BufIds : h[c] = Unalloc => a <= c
    ELSE NULL

\* detach_input_queue_from_looper / attach_input_queue_to_looper.
detach_input_queue_from_looper(att, iq) ==
    IF iq # NULL /\ att = iq THEN NULL ELSE att

attach_input_queue_to_looper(att, iq) ==
    IF iq # NULL THEN iq ELSE att

\* A notification that wakes nobody.
notify_one_lost == notified

\* Condvar::notify_one: the one possible waiter is the host thread.
notify_one == IF hostPc = "waiting" THEN TRUE ELSE notified

\* saved_state(): Some(copy of the buffer) iff pointer non-null and size > 0.
saved_state_read(h, p, n) ==
    IF p # NULL /\ n > 0 THEN Some(SubSeq(h[p], 1, n)) ELSE None

\* request_save_state's return value after mem::replace / mem::take.
save_state_result(p, n) ==
    IF p # NULL /\ n > 0 THEN << p, n >> ELSE NullRet

\* What std::mem::replace(&mut saved_state, null_mut()) and
\* std::mem::take(&mut saved_state_size) leave in the shared state.
replace_saved_state_keep(p) == p
replace_saved_state(p) == NULL
take_saved_state_size(n) == 0

\* What the setters leave in their pending slot before they return
\* (pending_input_queue = null_mut(), pending_window = None).
pending_kept(p) == p
pending_cleared(p) == NULL

\* A configuration snapshot read from the asset manager: two of its fields
\* (AConfiguration_new + AConfiguration_fromAssetManager).
config_snapshot(c) == << c, c >>

\* guard.config.replace(config): the snapshot the shared state holds after.
config_replace_torn(old, new) == << new[1], old[2] >>
config_replace(old, new) == new

\* The length set_saved_state records for the new buffer.
stored_len_zero(state) == 0
stored_len(state) == Len(state)

(***************************************************************************)
(* The loop conditions of the blocking host calls, negated: TRUE when the  *)
(* call stops waiting.                                                     *)
(***************************************************************************)
set_input_done_nowait(iq, piq) == TRUE
set_input_done(iq, piq) == iq = piq

set_window_done(w, pw) == w = pw

set_activity_state_done(cur, state) == cur = state

request_save_state_done(saved) == saved

notify_destroyed_done(d) == d

(***************************************************************************)
(* Initial state: after NativeActivityGlue::new and the spawn of the Rust  *)
(* main thread in ANativeActivity_onCreate.                                *)
(***************************************************************************)
\* WaitableNativeActivityState::new copies a non-empty restored state.
InitHeap(savedIn) ==
    IF savedIn # None /\ Len(savedIn[1]) > 0
    THEN [a \in BufIds |-> IF a = 1 THEN savedIn[1] ELSE Unalloc]
    ELSE [a \in BufIds |-> Unalloc]

InitShared(savedIn) ==
    /\ msg_read = PipeRd
    /\ msg_write = PipeWr
    /\ config = config_snapshot(sysConfig)
    /\ saved_state = IF savedIn # None /\ Len(savedIn[1]) > 0 THEN 1 ELSE NULL
    /\ saved_state_size = IF savedIn = None THEN 0 ELSE Len(savedIn[1])
    /\ input_queue = NULL
    /\ window = NULL
    /\ activity_state = "Init"
    /\ destroy_requested = FALSE
    /\ running = FALSE
    /\ state_saved = FALSE
    /\ destroyed = FALSE
    /\ pending_input_queue = NULL
    /\ pending_window = NULL
    /\ heap = InitHeap(savedIn)
    /\ looper_attached = NULL

Init ==
    /\ sysConfig = 0
    /\ \E savedIn \in Restored : InitShared(savedIn)
    /\ channel = << >>
    /\ strong = 2
    /\ weak = 2
    /\ hostPc = "entered"
    /\ hostOp = "on_create"
    /\ hostArg = NULL
    /\ hostRet = NullRet
    /\ notified = FALSE
    /\ appPc = "start"
    /\ appCmd = NoCmd
    /\ appMine = FALSE
    /\ stored = None
    /\ errlog = {}

(***************************************************************************)
(* Host thread: the extern "C" callbacks.  Each resolves the weak pointer  *)
(* stored in the ANativeActivity, upgrades it (the strong handle lives to  *)
(* the end of the callback) and calls one method.                          *)
(***************************************************************************)
\* Weak::from_raw(..).upgrade() returning Some.
Upgrade ==
    /\ hostPc = "idle"
    /\ strong > 0
    /\ strong' = strong + 1
    /\ weak' = weak

\* The pipe has room for n more bytes.
Room(n) == Len(channel) + n <= MaxQueued

\* Begin a call: what every host call fixes besides its own effects.
Enter(op, arg, n) ==
    /\ hostOp' = op
    /\ hostArg' = arg
    /\ hostRet' = NullRet
    /\ notified' = FALSE
    /\ errlog' = write_errlog(errlog, msg_write, n)
    /\ UNCHANGED << appVars, stored, heap, looper_attached >>

\* on_input_queue_created / on_input_queue_destroyed -> set_input.
set_input(q) ==
    /\ Upgrade
    /\ Room(1)
    /\ Enter("set_input", q, 1)
    /\ channel' = write_cmd(channel, msg_write, "InputQueueChanged")
    /\ IF set_input_done(input_queue, q)
       THEN pending_input_queue' = pending_cleared(q) /\ hostPc' = "returned"
       ELSE pending_input_queue' = q /\ hostPc' = "waiting"
    /\ UNCHANGED << msg_read, msg_write, config, saved_state, saved_state_size,
                    input_queue, window, activity_state, destroy_requested,
                    running, state_saved, destroyed, pending_window, sysConfig >>

\* The commands set_window writes, with TermWindow and InitWindow swapped.
set_window_writes_swapped(ch, fd, cur, w) ==
    LET ch1 == IF w # NULL THEN write_cmd(ch, fd, "InitWindow") ELSE ch
    IN  IF cur # NULL THEN write_cmd(ch1, fd, "TermWindow") ELSE ch1

\* The commands set_window writes: TermWindow if a window is current, then
\* InitWindow if the requested one is Some.
set_window_writes(ch, fd, cur, w) ==
    LET ch1 == IF cur # NULL THEN write_cmd(ch, fd, "TermWindow") ELSE ch
    IN  IF w # NULL THEN write_cmd(ch1, fd, "InitWindow") ELSE ch1

\* on_native_window_created / on_native_window_destroyed -> set_window.
set_window(w) ==
    /\ Upgrade
    /\ Room(Len(set_window_writes(<< >>, msg_write, window, w)))
    /\ Enter("set_window", w, Len(set_window_writes(<< >>, msg_write, window, w)))
    /\ channel' = set_window_writes(channel, msg_write, window, w)
    /\ IF set_window_done(window, w)
       THEN pending_window' = pending_cleared(w) /\ hostPc' = "returned"
       ELSE pending_window' = w /\ hostPc' = "waiting"
    /\ UNCHANGED << msg_read, msg_write, config, saved_state, saved_state_size,
                    input_queue, window, activity_state, destroy_requested,
                    running, state_saved, destroyed, pending_input_queue,
                    sysConfig >>

\* A match that sends Init like Start.
state_cmd_no_panic(state) ==
    IF state \in {"Init", "Start"} THEN "Start" ELSE state

\* The command of a requested state; the arm of Init panics.
state_cmd(state) ==
    CASE state = "Init" -> Panic
      [] state = "Start" -> "Start"
      [] state = "Resume" -> "Resume"
      [] state = "Pause" -> "Pause"
      [] state = "Stop" -> "Stop"

\* on_start / on_resume / on_pause / on_stop -> set_activity_state.
\* The panic of the Init arm comes before write_cmd and unwinds into the
\* extern "C" callback, which aborts the process.
set_activity_state(state) ==
    /\ Upgrade
    /\ IF state_cmd(state) = Panic
       THEN /\ Enter("set_activity_state", StateOrd(state), 0)
            /\ hostPc' = "aborted"
            /\ UNCHANGED channel
       ELSE /\ Room(1)
            /\ Enter("set_activity_state", StateOrd(state), 1)
            /\ channel' = write_cmd(channel, msg_write, state_cmd(state))
            /\ hostPc' = IF set_activity_state_done(activity_state, state)
                         THEN "returned" ELSE "waiting"
    /\ UNCHANGED << sharedVars, sysConfig >>

\* on_save_instance_state -> request_save_state.
request_save_state ==
    /\ Upgrade
    /\ Room(1)
    /\ Enter("request_save_state", NULL, 1)
    /\ state_saved' = FALSE
    /\ channel' = write_cmd(channel, msg_write, "SaveState")
    /\ hostPc' = "waiting"
    /\ UNCHANGED << msg_read, msg_write, config, saved_state, saved_state_size,
                    input_queue, window, activity_state, destroy_requested,
                    running, destroyed, pending_input_queue, pending_window,
                    sysConfig >>

\* on_destroy -> notify_destroyed.  destroyed is set by Drop alone, which
\* cannot have run while this callback's strong handle exists.
notify_destroyed ==
    /\ Upgrade
    /\ Room(1)
    /\ Enter("notify_destroyed", NULL, 1)
    /\ channel' = write_cmd(channel, msg_write, "Destroy")
    /\ IF notify_destroyed_done(destroyed)
       THEN /\ msg_read' = ClosedFd
            /\ msg_write' = ClosedFd
            /\ hostPc' = "returned"
       ELSE /\ UNCHANGED << msg_read, msg_write >>
            /\ hostPc' = "waiting"
    /\ UNCHANGED << config, saved_state, saved_state_size, input_queue, window,
                    activity_state, destroy_requested, running, state_saved,
                    destroyed, pending_input_queue, pending_window, sysConfig >>

\* on_configuration_changed -> notify_config_changed; the platform has
\* changed the asset manager's configuration before it calls.
notify_config_changed ==
    /\ Upgrade
    /\ Room(1)
    /\ Enter("notify_config_changed", NULL, 1)
    /\ sysConfig' \in ConfigVals \ {sysConfig}
    /\ channel' = write_cmd(channel, msg_write, "ConfigChanged")
    /\ hostPc' = "returned"
    /\ UNCHANGED sharedVars

\* on_low_memory -> notify_low_memory.
notify_low_memory ==
    /\ Upgrade
    /\ Room(1)
    /\ Enter("notify_low_memory", NULL, 1)
    /\ channel' = write_cmd(channel, msg_write, "LowMemory")
    /\ hostPc' = "returned"
    /\ UNCHANGED << sharedVars, sysConfig >>

\* on_window_focus_changed -> notify_focus_changed.
notify_focus_changed(focused) ==
    /\ Upgrade
    /\ Room(1)
    /\ Enter("notify_focus_changed", NULL, 1)
    /\ channel' = write_cmd(channel, msg_write,
                            IF focused THEN "GainedFocus" ELSE "LostFocus")
    /\ hostPc' = "returned"
    /\ UNCHANGED << sharedVars, sysConfig >>

\* A fire-and-forget notification on a full pipe: libc::write inside
\* write_cmd blocks, and the callback holds the mutex guard while it does.
write_cmd_blocked(op) ==
    /\ Upgrade
    /\ ~Room(1)
    /\ msg_write # ClosedFd
    /\ Enter(op, NULL, 0)
    /\ hostPc' = "blocked"
    /\ UNCHANGED << sharedVars, channel, sysConfig >>

\* The blocked write completes once the pipe has room again.
write_cmd_resumed ==
    /\ hostPc = "blocked"
    /\ Room(1)
    /\ hostPc' = "returned"
    /\ channel' = write_cmd(channel, msg_write,
                            CASE hostOp = "notify_low_memory" -> "LowMemory"
                              [] hostOp = "notify_config_changed" -> "ConfigChanged"
                              [] hostOp = "notify_focus_changed" -> "LostFocus")
    /\ UNCHANGED << sharedVars, heap, looper_attached, sysConfig, strong, weak,
                    hostOp, hostArg, hostRet, notified, appVars, obsVars >>

\* A callback whose upgrade() returns None: the state was already dropped.
callback_after_drop ==
    /\ hostPc = "idle"
    /\ strong = 0
    /\ hostPc' = "returned"
    /\ hostOp' = "none"
    /\ UNCHANGED << sharedVars, envVars, hostArg, hostRet, notified, appVars,
                    obsVars >>

\* ANativeActivity_onCreate, "Wait for thread to start": first check.
on_create_wait ==
    /\ hostPc = "entered"
    /\ hostPc' = IF running THEN "returned" ELSE "waiting"
    /\ notified' = FALSE
    /\ UNCHANGED << sharedVars, envVars, hostOp, hostArg, hostRet, appVars,
                    obsVars >>

\* The host thread re-acquires the mutex inside cond.wait and re-checks the
\* loop condition of the call it is in.
Recheck ==
    /\ notified' = FALSE
    /\ UNCHANGED << envVars, hostOp, hostArg, appVars, obsVars >>
    /\ CASE hostOp = "set_input" ->
              /\ IF set_input_done(input_queue, pending_input_queue)
                 THEN /\ pending_input_queue' = pending_cleared(pending_input_queue)
                      /\ hostPc' = "returned"
                 ELSE UNCHANGED << pending_input_queue, hostPc >>
              /\ UNCHANGED << msg_read, msg_write, config, saved_state,
                              saved_state_size, input_queue, window,
                              activity_state, destroy_requested, running,
                              state_saved, destroyed, pending_window,
                              hostRet >>
         [] hostOp = "set_window" ->
              /\ IF set_window_done(window, pending_window)
                 THEN /\ pending_window' = pending_cleared(pending_window)
                      /\ hostPc' = "returned"
                 ELSE UNCHANGED << pending_window, hostPc >>
              /\ UNCHANGED << msg_read, msg_write, config, saved_state,
                              saved_state_size, input_queue, window,
                              activity_state, destroy_requested, running,
                              state_saved, destroyed, pending_input_queue,
                              hostRet >>
         [] hostOp = "set_activity_state" ->
              /\ hostPc' = IF set_activity_state_done(StateOrd(activity_state), hostArg)
                           THEN "returned" ELSE hostPc
              /\ UNCHANGED << sharedVars, hostRet >>
         [] hostOp = "request_save_state" ->
              /\ IF request_save_state_done(state_saved)
                 THEN /\ hostRet' = save_state_result(saved_state, saved_state_size)
                      /\ saved_state' = replace_saved_state(saved_state)
                      /\ saved_state_size' = take_saved_state_size(saved_state_size)
                      /\ hostPc' = "returned"
                 ELSE UNCHANGED << hostRet, saved_state, saved_state_size,
                                   hostPc >>
              /\ UNCHANGED << msg_read, msg_write, config, input_queue, window,
                              activity_state, destroy_requested, running,
                              state_saved, destroyed, pending_input_queue,
                              pending_window >>
         [] hostOp = "notify_destroyed" ->
              /\ IF notify_destroyed_done(destroyed)
                 THEN /\ msg_read' = ClosedFd
                      /\ msg_write' = ClosedFd
                      /\ hostPc' = "returned"
                 ELSE UNCHANGED << msg_read, msg_write, hostPc >>
              /\ UNCHANGED << config, saved_state, saved_state_size,
                              input_queue, window, activity_state,
                              destroy_requested, running, state_saved,
                              destroyed, pending_input_queue, pending_window,
                              hostRet >>
         [] hostOp = "on_create" ->
              /\ hostPc' = IF running THEN "returned" ELSE hostPc
              /\ UNCHANGED << sharedVars, hostRet >>

\* cond.wait returns after a notify_one.
HostWake ==
    /\ hostPc = "waiting"
    /\ notified
    /\ Recheck

\* cond.wait returns without a notification (a spurious wake-up).
HostSpuriousWake ==
    /\ hostPc = "waiting"
    /\ ~notified
    /\ Recheck

\* Drop for Weak: the weak count goes down by one, and the allocation is
\* released when it reaches zero.  What a thread finds in a released
\* allocation is not defined; the model stops counting at zero and follows
\* the protocol on the values the state held.
drop_weak(w) == IF w > 0 THEN w - 1 ELSE 0

\* Drop for WaitableNativeActivityState, run by whoever drops the last
\* strong handle: the values it leaves.
drop_heap_leak(h) == h
drop_heap(h) == free_saved_state(h, saved_state)
drop_attached == detach_input_queue_from_looper(looper_attached, input_queue)

\* The callback returns to the platform: the upgraded handle is dropped
\* (running Drop if it was the last, and then giving up the weak count the
\* strong handles held), the Weak that Weak::from_raw rebuilt from the stored
\* pointer is dropped, and ANativeActivity frees the buffer that
\* on_save_instance_state handed to it.  ANativeActivity_onCreate rebuilds
\* no Weak.
HostLeave ==
    /\ hostPc = "returned"
    /\ hostPc' = "idle"
    /\ hostOp' = "none"
    /\ hostArg' = NULL
    /\ hostRet' = NullRet
    /\ channel' = [i \in 1..Len(channel) |-> [channel[i] EXCEPT !.mine = FALSE]]
    /\ LET last == hostOp # "none" /\ strong = 1
           h1 == IF last THEN drop_heap(heap) ELSE heap
           w1 == IF last THEN drop_weak(weak) ELSE weak
       IN  /\ strong' = IF hostOp = "none" THEN strong ELSE strong - 1
           /\ weak' = IF hostOp = "on_create" THEN w1 ELSE drop_weak(w1)
           /\ heap' = IF hostRet[1] # NULL
                      THEN [h1 EXCEPT ![hostRet[1]] = Unalloc] ELSE h1
           /\ saved_state' = IF last THEN NULL ELSE saved_state
           /\ saved_state_size' = IF last THEN 0 ELSE saved_state_size
           /\ looper_attached' = IF last THEN drop_attached ELSE looper_attached
           /\ destroyed' = IF last THEN TRUE ELSE destroyed
    /\ UNCHANGED << msg_read, msg_write, config, input_queue, window,
                    activity_state, destroy_requested, running, state_saved,
                    pending_input_queue, pending_window, sysConfig, notified,
                    appVars, obsVars >>

(***************************************************************************)
(* Application thread.                                                     *)
(***************************************************************************)
\* The application thread can take a step: the process has not aborted and,
\* if the step locks the mutex, the host thread is not holding it in a
\* blocked write.  (A host thread inside cond.wait has released it; every
\* other critical section is one step of the model.)
AppRuns(locks) ==
    /\ hostPc # "aborted"
    /\ locks => hostPc # "blocked"

\* The commands whose pre_exec_cmd arm locks the mutex.
PreLocks ==
    {"InputQueueChanged", "InitWindow", "Resume", "Start", "Pause", "Stop",
     "ConfigChanged", "Destroy"}
\* The commands whose post_exec_cmd arm locks the mutex.
PostLocks == {"TermWindow", "SaveState", "Resume"}

\* The spawned thread: AndroidApp::new(rust_glue.clone()), then
\* notify_main_thread_running.
notify_main_thread_running ==
    /\ appPc = "start"
    /\ AppRuns(TRUE)
    /\ appPc' = "poll"
    /\ strong' = strong + 1
    /\ weak' = weak
    /\ running' = TRUE
    /\ notified' = notify_one
    /\ UNCHANGED << msg_read, msg_write, config, saved_state, saved_state_size,
                    input_queue, window, activity_state, destroy_requested,
                    state_saved, destroyed, pending_input_queue, pending_window,
                    channel, heap, looper_attached, sysConfig,
                    hostPc, hostOp, hostArg, hostRet, appCmd, appMine, obsVars >>

\* Where the event loop goes after read_cmd returned r: a decoded command is
\* pre-applied, delivered and post-applied; None is skipped.
after_read(r) == IF r = Err THEN "poll" ELSE "pre"

\* read_cmd on a readable pipe: one byte is consumed and decoded; SaveState
\* frees the stored buffer, an unknown byte is logged and yields None.
read_cmd ==
    /\ appPc = "poll"
    /\ AppRuns(TRUE)
    /\ channel # << >>
    /\ msg_read # ClosedFd
    /\ LET e == Head(channel)
           r == TryFromI8(e.b)
       IN  /\ channel' = Tail(channel)
           /\ appPc' = after_read(r)
           /\ appCmd' = IF r = Err THEN NoCmd ELSE r
           /\ appMine' = IF r = Err THEN FALSE ELSE e.mine
           /\ errlog' = IF r = Err THEN errlog \cup {"unknown_cmd"} ELSE errlog
           /\ IF r = "SaveState"
              THEN /\ heap' = free_saved_state(heap, saved_state)
                   /\ saved_state' = NULL
                   /\ saved_state_size' = IF saved_state # NULL THEN 0
                                          ELSE saved_state_size
              ELSE UNCHANGED << heap, saved_state, saved_state_size >>
    /\ UNCHANGED << msg_read, msg_write, config, input_queue, window,
                    activity_state, destroy_requested, running, state_saved,
                    destroyed, pending_input_queue, pending_window,
                    looper_attached, sysConfig, strong, weak, hostVars,
                    stored >>

\* A match that takes Resume for Pause and Pause for Resume.
cmd_state_swapped(cmd) ==
    CASE cmd = "Start" -> "Start"
      [] cmd = "Pause" -> "Resume"
      [] cmd = "Resume" -> "Pause"
      [] cmd = "Stop" -> "Stop"

\* The state a lifecycle command stands for.
cmd_state(cmd) ==
    CASE cmd = "Start" -> "Start"
      [] cmd = "Pause" -> "Pause"
      [] cmd = "Resume" -> "Resume"
      [] cmd = "Stop" -> "Stop"

\* pre_exec_cmd.
pre_exec_cmd ==
    /\ appPc = "pre"
    /\ AppRuns(appCmd \in PreLocks)
    /\ appPc' = "callback"
    /\ UNCHANGED << appCmd, appMine, channel, heap, sysConfig, strong, weak,
                    hostPc, hostOp, hostArg, hostRet, obsVars,
                    msg_read, msg_write, saved_state, saved_state_size,
                    running, state_saved, destroyed, pending_input_queue,
                    pending_window >>
    /\ CASE appCmd = "InputQueueChanged" ->
              /\ input_queue' = pending_input_queue
              /\ looper_attached' =
                    attach_input_queue_to_looper(
                        detach_input_queue_from_looper(looper_attached, input_queue),
                        pending_input_queue)
              /\ notified' = notify_one
              /\ UNCHANGED << window, activity_state, config, destroy_requested >>
         [] appCmd = "InitWindow" ->
              /\ window' = pending_window
              /\ notified' = notify_one
              /\ UNCHANGED << input_queue, looper_attached, activity_state,
                              config, destroy_requested >>
         [] appCmd \in {"Resume", "Start", "Pause", "Stop"} ->
              /\ activity_state' = cmd_state(appCmd)
              /\ notified' = notify_one
              /\ UNCHANGED << input_queue, looper_attached, window, config,
                              destroy_requested >>
         [] appCmd = "ConfigChanged" ->
              /\ config' = config_replace(config, config_snapshot(sysConfig))
              /\ UNCHANGED << input_queue, looper_attached, window,
                              activity_state, destroy_requested, notified >>
         [] appCmd = "Destroy" ->
              /\ destroy_requested' = TRUE
              /\ UNCHANGED << input_queue, looper_attached, window,
                              activity_state, config, notified >>
         [] OTHER ->
              UNCHANGED << input_queue, looper_attached, window,
                           activity_state, config, destroy_requested, notified >>

\* set_saved_state, called by the user callback: any stored buffer is freed,
\* a new one of state.len() bytes is allocated and filled.
set_saved_state(state) ==
    /\ appPc = "callback"
    /\ AppRuns(TRUE)
    /\ LET h1 == free_saved_state(heap, saved_state)
           buf == malloc(h1)
       IN  /\ buf # NULL
           /\ heap' = [h1 EXCEPT ![buf] = state]
           /\ saved_state' = buf
           /\ saved_state_size' = stored_len(state)
    /\ stored' = Some(state)
    /\ UNCHANGED << msg_read, msg_write, config, input_queue, window,
                    activity_state, destroy_requested, running, state_saved,
                    destroyed, pending_input_queue, pending_window,
                    channel, looper_attached, sysConfig, strong, weak,
                    hostVars, appVars, errlog >>

\* The user callback returns.
callback_done ==
    /\ appPc = "callback"
    /\ AppRuns(FALSE)
    /\ appPc' = "post"
    /\ UNCHANGED << sharedVars, envVars, hostVars, appCmd, appMine, obsVars >>

\* post_exec_cmd.
post_exec_cmd ==
    /\ appPc = "post"
    /\ AppRuns(appCmd \in PostLocks)
    /\ appPc' = "poll"
    /\ appCmd' = NoCmd
    /\ appMine' = FALSE
    /\ stored' = None
    /\ UNCHANGED << msg_read, msg_write, config, input_queue, activity_state,
                    destroy_requested, running, destroyed, pending_input_queue,
                    pending_window, channel, looper_attached, sysConfig, strong,
                    weak,
                    hostPc, hostOp, hostArg, hostRet, errlog >>
    /\ CASE appCmd = "TermWindow" ->
              /\ window' = NULL
              /\ notified' = notify_one
              /\ UNCHANGED << state_saved, heap, saved_state, saved_state_size >>
         [] appCmd = "SaveState" ->
              /\ state_saved' = TRUE
              /\ notified' = notify_one
              /\ UNCHANGED << window, heap, saved_state, saved_state_size >>
         [] appCmd = "Resume" ->
              /\ heap' = free_saved_state(heap, saved_state)
              /\ saved_state' = NULL
              /\ saved_state_size' = IF saved_state # NULL THEN 0
                                     ELSE saved_state_size
              /\ UNCHANGED << window, state_saved, notified >>
         [] OTHER ->
              UNCHANGED << window, state_saved, notified, heap, saved_state,
                           saved_state_size >>

\* android_main returns: the thread's two strong handles (rust_glue and the
\* AndroidApp) are dropped; Drop runs if no callback holds a third.
android_main_returns ==
    /\ appPc = "poll"
    /\ AppRuns(strong = 2)
    /\ appPc' = "exited"
    /\ strong' = strong - 2
    /\ LET last == strong = 2
       IN  /\ weak' = IF last THEN drop_weak(weak) ELSE weak
           /\ heap' = IF last THEN drop_heap(heap) ELSE heap
           /\ saved_state' = IF last THEN NULL ELSE saved_state
           /\ saved_state_size' = IF last THEN 0 ELSE saved_state_size
           /\ looper_attached' = IF last THEN drop_attached ELSE looper_attached
           /\ destroyed' = IF last THEN TRUE ELSE destroyed
           /\ notified' = IF last THEN notify_one ELSE notified
    /\ UNCHANGED << msg_read, msg_write, config, input_queue, window,
                    activity_state, destroy_requested, running, state_saved,
                    pending_input_queue, pending_window, channel, sysConfig,
                    hostPc, hostOp, hostArg, hostRet, appCmd, appMine, obsVars >>

(***************************************************************************)
(* Calls whose libc::write fails with an error other than EINTR: write_cmd *)
(* logs the failure and returns (), and its caller carries on.             *)
(***************************************************************************)
\* set_input, its write failing: the pending slot is published and the wait
\* loop is entered as after a successful write.
set_input_write_failed(q) ==
    /\ Upgrade
    /\ hostOp' = "set_input"
    /\ hostArg' = q
    /\ hostRet' = NullRet
    /\ notified' = FALSE
    /\ errlog' = errlog \cup {"write"}
    /\ IF set_input_done(input_queue, q)
       THEN pending_input_queue' = pending_cleared(q) /\ hostPc' = "returned"
       ELSE pending_input_queue' = q /\ hostPc' = "waiting"
    /\ UNCHANGED << msg_read, msg_write, config, saved_state, saved_state_size,
                    input_queue, window, activity_state, destroy_requested,
                    running, state_saved, destroyed, pending_window, sysConfig,
                    channel, heap, looper_attached, appVars, stored >>

\* notify_low_memory, its write failing.
notify_low_memory_write_failed ==
    /\ Upgrade
    /\ hostOp' = "notify_low_memory"
    /\ hostArg' = NULL
    /\ hostRet' = NullRet
    /\ notified' = FALSE
    /\ errlog' = errlog \cup {"write"}
    /\ hostPc' = "returned"
    /\ UNCHANGED << sharedVars, sysConfig, channel, heap, looper_attached,
                    appVars, stored >>

(***************************************************************************)
(* Specifications.                                                         *)
(***************************************************************************)
\* The callbacks that only write a command.
Notifications ==
    {"notify_low_memory", "notify_config_changed", "notify_focus_changed"}

HostCall ==
    \/ \E q \in Queues \cup {NULL} : set_input(q)
    \/ \E w \in Windows \cup {NULL} : set_window(w)
    \/ \E s \in States : set_activity_state(s)
    \/ request_save_state
    \/ notify_destroyed
    \/ notify_config_changed
    \/ notify_low_memory
    \/ \E f \in BOOLEAN : notify_focus_changed(f)
    \/ \E op \in Notifications : write_cmd_blocked(op)
    \/ write_cmd_resumed
    \/ callback_after_drop

Next ==
    \/ HostCall
    \/ on_create_wait
    \/ HostWake
    \/ HostSpuriousWake
    \/ HostLeave
    \/ notify_main_thread_running
    \/ read_cmd
    \/ pre_exec_cmd
    \/ \E b \in ByteSeqs : set_saved_state(b)
    \/ callback_done
    \/ post_exec_cmd
    \/ android_main_returns

Spec == Init /\ [][Next]_vars

\* The rendezvous of the setters: the host callbacks that block on the
\* application thread, one fire-and-forget notification, and the event loop.
NextSetters ==
    \/ on_create_wait
    \/ notify_main_thread_running
    \/ \E q \in Queues \cup {NULL} : set_input(q)
    \/ \E w \in Windows \cup {NULL} : set_window(w)
    \/ \E s \in SettableStates : set_activity_state(s)
    \/ request_save_state
    \/ notify_low_memory
    \/ HostWake
    \/ HostSpuriousWake
    \/ HostLeave
    \/ read_cmd
    \/ pre_exec_cmd
    \/ callback_done
    \/ post_exec_cmd

SpecSetters == Init /\ [][NextSetters]_vars

\* The application thread keeps running its loop, the user callback returns,
\* and a notified waiter re-acquires the mutex.  Nothing obliges the platform
\* to call, and a spurious wake-up is never owed.
AppFair ==
    /\ WF_vars(notify_main_thread_running)
    /\ WF_vars(read_cmd)
    /\ WF_vars(pre_exec_cmd)
    /\ WF_vars(callback_done)
    /\ WF_vars(post_exec_cmd)
    /\ WF_vars(on_create_wait)
    /\ WF_vars(HostWake)

FairSetters == SpecSetters /\ AppFair

\* Teardown: on_destroy, the lifecycle callbacks, the event loop, and the
\* return of android_main.
NextTeardown ==
    \/ on_create_wait
    \/ notify_main_thread_running
    \/ \E s \in SettableStates : set_activity_state(s)
    \/ \E q \in Queues \cup {NULL} : set_input(q)
    \/ notify_destroyed
    \/ callback_after_drop
    \/ HostWake
    \/ HostSpuriousWake
    \/ HostLeave
    \/ read_cmd
    \/ pre_exec_cmd
    \/ callback_done
    \/ post_exec_cmd
    \/ android_main_returns

SpecTeardown == Init /\ [][NextTeardown]_vars

FairTeardown == SpecTeardown /\ AppFair

\* The saved-state buffer: its producers, consumers and every free.
NextSave ==
    \/ on_create_wait
    \/ notify_main_thread_running
    \/ \E s \in SettableStates : set_activity_state(s)
    \/ request_save_state
    \/ callback_after_drop
    \/ HostWake
    \/ HostSpuriousWake
    \/ HostLeave
    \/ read_cmd
    \/ pre_exec_cmd
    \/ \E b \in ByteSeqs : set_saved_state(b)
    \/ callback_done
    \/ post_exec_cmd
    \/ android_main_returns

SpecSave == Init /\ [][NextSave]_vars

\* The bytes read_cmd is tried on: commands of every kind of handling, and
\* values outside 0..15 on both sides of the range.
WireBytes == {InputQueueChanged, TermWindow, LowMemory, Resume, SaveState,
              99, 16, -1}

\* The event loop alone, started on a pipe holding arbitrary bytes: the
\* state once ANativeActivity_onCreate has returned, no callback under way.
InitRead ==
    /\ sysConfig = 0
    /\ \E savedIn \in Restored : InitShared(savedIn)
    /\ channel \in UNION { [1..n -> [b : WireBytes, mine : {FALSE}]] : n \in 0..MaxQueued }
    /\ strong = 2
    /\ weak = 2
    /\ hostPc = "idle"
    /\ hostOp = "none"
    /\ hostArg = NULL
    /\ hostRet = NullRet
    /\ notified = FALSE
    /\ appPc = "poll"
    /\ appCmd = NoCmd
    /\ appMine = FALSE
    /\ stored = None
    /\ errlog = {}

NextRead ==
    \/ read_cmd
    \/ pre_exec_cmd
    \/ \E b \in ByteSeqs : set_saved_state(b)
    \/ callback_done
    \/ post_exec_cmd

SpecRead == InitRead /\ [][NextRead]_vars

\* The pipe under the callbacks that only write a command, the application
\* thread draining it at its own pace.
NextPipe ==
    \/ on_create_wait
    \/ notify_main_thread_running
    \/ notify_config_changed
    \/ notify_low_memory
    \/ \E f \in BOOLEAN : notify_focus_changed(f)
    \/ \E op \in Notifications : write_cmd_blocked(op)
    \/ HostWake
    \/ HostSpuriousWake
    \/ HostLeave
    \/ read_cmd
    \/ pre_exec_cmd
    \/ callback_done
    \/ post_exec_cmd

SpecPipe == Init /\ [][NextPipe]_vars

\* The lifecycle state: set_activity_state on every value of State, and the
\* event loop.
NextStates ==
    \/ on_create_wait
    \/ notify_main_thread_running
    \/ \E s \in States : set_activity_state(s)
    \/ HostWake
    \/ HostSpuriousWake
    \/ HostLeave
    \/ read_cmd
    \/ pre_exec_cmd
    \/ callback_done
    \/ post_exec_cmd

SpecStates == Init /\ [][NextStates]_vars

FairStates == SpecStates /\ AppFair

\* Failing writes: set_input and notify_low_memory with either outcome of
\* their write, and the event loop.
NextWriteFail ==
    \/ on_create_wait
    \/ notify_main_thread_running
    \/ \E q \in Queues \cup {NULL} : set_input(q)
    \/ \E q \in Queues \cup {NULL} : set_input_write_failed(q)
    \/ notify_low_memory
    \/ notify_low_memory_write_failed
    \/ HostWake
    \/ HostSpuriousWake
    \/ HostLeave
    \/ read_cmd
    \/ pre_exec_cmd
    \/ callback_done
    \/ post_exec_cmd

SpecWriteFail == Init /\ [][NextWriteFail]_vars

(***************************************************************************)
(* Properties.                                                             *)
(***************************************************************************)
Setters == {"set_input", "set_window", "set_activity_state"}
BlockingCalls == Setters \cup {"request_save_state"}

\* The step on which a host call returns to its callback.
Returns == hostPc # "returned" /\ hostPc' = "returned"

\* C1: at the moment set_input(q), set_window(w) or set_activity_state(s)
\* returns, the current input_queue, window or activity_state equals the
\* requested value, whatever the application thread did in between.
C1_SetterReturnsWithRequestedValue ==
    [][ Returns =>
          /\ hostOp' = "set_input" => input_queue' = hostArg'
          /\ hostOp' = "set_window" => window' = hostArg'
          /\ hostOp' = "set_activity_state" =>
                StateOrd(activity_state') = hostArg' ]_vars

\* C1 witness: set_input of a queue has returned after the application thread
\* applied it, with a command of an earlier call still unread in the pipe.
C1_Witness ==
    /\ hostPc = "returned"
    /\ hostOp = "set_input"
    /\ hostArg \in Queues
    /\ input_queue = hostArg
    /\ appPc \in {"callback", "post"}

\* C2: when a blocking host call has returned, none of the commands it wrote
\* is still unread in the pipe or read but not yet pre-applied.
C2_ReturnsAfterOwnCommandsApplied ==
    (hostPc = "returned" /\ hostOp \in BlockingCalls) =>
        /\ \A i \in 1..Len(channel) : ~channel[i].mine
        /\ ~(appMine /\ appPc = "pre")

\* The bytes a step appended to the pipe.
Written ==
    [i \in 1..(Len(channel') - Len(channel)) |-> channel'[Len(channel) + i].b]

\* C4: the call step of set_window(w) writes TermWindow then InitWindow when
\* a window is current and w is Some, only InitWindow when no window is
\* current, only TermWindow when w is None and a window is current; all of
\* it before the call waits or returns.
C4_WindowHandoffOrder ==
    [][ (hostPc = "idle" /\ hostOp' = "set_window") =>
          Written =
            IF window # NULL /\ hostArg' # NULL THEN << TermWindow, InitWindow >>
            ELSE IF hostArg' # NULL THEN << InitWindow >>
            ELSE IF window # NULL THEN << TermWindow >>
            ELSE << >> ]_vars

\* C4 witness: set_window(Some(new)) was called over a different current
\* window and waits, with TermWindow and InitWindow in the pipe.
C4_Witness ==
    /\ hostOp = "set_window"
    /\ hostPc = "waiting"
    /\ hostArg \in Windows
    /\ window \in Windows
    /\ window # hostArg
    /\ Len(channel) = 2
    /\ channel[1].b = TermWindow /\ channel[1].mine
    /\ channel[2].b = InitWindow /\ channel[2].mine

\* C3: under a fair application thread every waiting set_input, set_window,
\* set_activity_state and request_save_state eventually returns.
C3_BlockingCallsReturn ==
    (hostPc = "waiting" /\ hostOp \in BlockingCalls) ~> (hostPc = "returned")

\* C3 witness: request_save_state, which always waits, has returned.
C3_Witness ==
    /\ hostPc = "returned"
    /\ hostOp = "request_save_state"
    /\ state_saved

\* C5: once on_destroy waits in notify_destroyed and the application thread
\* has handled Destroy and released its handles, destroyed becomes true and
\* notify_destroyed returns with both pipe ends closed.
C5_TeardownCompletes ==
    (hostOp = "notify_destroyed" /\ hostPc = "waiting" /\ destroy_requested
        /\ appPc = "exited")
        ~> (destroyed /\ hostPc = "returned" /\ msg_read = ClosedFd
                      /\ msg_write = ClosedFd)

\* saved_state() as the application would read it now.
SavedStateNow == saved_state_read(heap, saved_state, saved_state_size)

\* Towards C6: no call of notify_destroyed ever returns, so the state "after
\* notify_destroyed() returned" that C6 speaks about is not reachable.
NotifyDestroyedNeverReturns ==
    ~(hostOp = "notify_destroyed" /\ hostPc = "returned")

\* C7: on the step request_save_state returns a non-empty buffer, the shared
\* slot is left empty and saved_state() reads None.
C7_SaveStateTransferredOut ==
    [][ (Returns /\ hostOp' = "request_save_state" /\ hostRet'[1] # NULL) =>
          /\ saved_state' = NULL
          /\ saved_state_read(heap', saved_state', saved_state_size') = None ]_vars

\* C7 witness: request_save_state has returned a buffer of one byte or more.
C7_Witness ==
    /\ hostPc = "returned"
    /\ hostOp = "request_save_state"
    /\ hostRet[1] # NULL
    /\ hostRet[2] > 0

\* C8 as stated: after set_saved_state(bytes), with no command handling in
\* between, saved_state() returns Some(bytes) for every bytes, the empty
\* sequence included.
C8_RoundTripAnyBytes ==
    stored # None => SavedStateNow = stored

\* C8 amended: after set_saved_state(bytes), with no command handling in
\* between, saved_state() returns Some(bytes) when bytes is non-empty and
\* None when bytes is empty.
C8_RoundTripNonEmpty ==
    stored # None =>
        SavedStateNow = IF Len(stored[1]) > 0 THEN stored ELSE None

\* C8 witness: a non-empty sequence was stored and is read back within the
\* same callback.
C8_Witness ==
    /\ stored # None
    /\ Len(stored[1]) > 0
    /\ appPc = "callback"
    /\ SavedStateNow = stored

\* The holders of a saved-state buffer: the shared state, and the caller of
\* request_save_state (the platform frees it after the callback).
HeldBy(a) ==
    (IF saved_state = a THEN {"shared"} ELSE {})
        \cup (IF hostRet[1] = a THEN {"host"} ELSE {})

\* C9: every allocated saved-state buffer has exactly one holder, and every
\* held pointer is allocated (nothing leaked, nothing freed twice).
C9_SingleOwner ==
    /\ \A a \in BufIds : heap[a] # Unalloc => Cardinality(HeldBy(a)) = 1
    /\ saved_state # NULL => heap[saved_state] # Unalloc
    /\ hostRet[1] # NULL => heap[hostRet[1]] # Unalloc

\* C10: reading a pipe byte outside 0..15 consumes that byte only: read_cmd
\* yields None, no field of the shared state changes, no pre/post step is
\* entered and the loop is back at its read; a byte inside 0..15 is delivered
\* as its command, in pipe order.
C10_UnknownByteIsNoOp ==
    [][ (appPc = "poll" /\ channel # << >> /\ channel' # channel) =>
          /\ channel' = Tail(channel)
          /\ Head(channel).b \notin 0..15 =>
                /\ UNCHANGED << sharedVars, heap, looper_attached, strong >>
                /\ appCmd' = NoCmd
                /\ appPc' = "poll"
          /\ Head(channel).b \in 0..15 =>
                /\ appCmd' = AppCmdNames[Head(channel).b + 1]
                /\ appPc' = "pre" ]_vars

\* C10 witness: an unknown byte was read and logged, and a command queued
\* behind it is being delivered.
C10_Witness ==
    /\ "unknown_cmd" \in errlog
    /\ appPc = "callback"
    /\ appCmd \in AppCmd

\* C11: no thread holds the mutex while it is blocked on anything but the
\* condition variable: the host thread is never blocked in write_cmd on a
\* full pipe with the mutex guard alive (the application thread reads only a
\* readable pipe, so it never blocks in read_cmd).
C11_MutexNotHeldWhileBlocked ==
    hostPc # "blocked"

\* C12: whenever the application thread pre-applies InputQueueChanged or
\* InitWindow, the command was written by the set_input / set_window call
\* still in progress and the pending slot holds the value passed to that
\* call (not a slot already cleared, or overwritten by a later call).
C12_PendingIsThePublishedValue ==
    [][ (appPc = "pre" /\ appPc' = "callback") =>
          /\ appCmd = "InputQueueChanged" =>
                appMine /\ hostOp = "set_input" /\ pending_input_queue = hostArg
          /\ appCmd = "InitWindow" =>
                appMine /\ hostOp = "set_window" /\ pending_window = hostArg ]_vars

\* C13: pending_input_queue is non-null only while a set_input call waits,
\* and pending_window only while a set_window call waits; so every call of
\* a setter finds its slot empty and the "update clash" assertions hold.
C13_PendingOnlyDuringCall ==
    /\ pending_input_queue # NULL => (hostOp = "set_input" /\ hostPc = "waiting")
    /\ pending_window # NULL => (hostOp = "set_window" /\ hostPc = "waiting")

\* C13 witness: a set_window call has returned after a rendezvous and left
\* its slot empty, with a window current for the next call to replace.
C13_Witness ==
    /\ hostOp = "set_window"
    /\ hostPc = "returned"
    /\ hostArg \in Windows
    /\ window = hostArg
    /\ pending_window = NULL

\* C14: destroyed is false after construction, never goes back to false, and
\* becomes true only on the step that drops the last strong handle (Drop);
\* that same step frees a saved-state buffer the state still owns and
\* detaches an input queue still attached to the looper.
C14_DestroyedOnlyByDrop ==
    /\ ~destroyed
    /\ [][ /\ destroyed => destroyed'
           /\ (~destroyed /\ destroyed') =>
                 /\ strong > 0 /\ strong' = 0
                 /\ saved_state' = NULL
                 /\ saved_state # NULL => heap'[saved_state] = Unalloc
                 /\ input_queue # NULL => looper_attached' # input_queue ]_vars

\* C14 witness: Drop has run with an input queue current, which it detached.
C14_Witness ==
    /\ destroyed
    /\ strong = 0
    /\ input_queue # NULL
    /\ looper_attached = NULL

\* C15: set_activity_state(Init) aborts: it writes no command and leaves
\* activity_state as it was; and once activity_state has left Init no step
\* makes it Init again.
C15_InitNotSettable ==
    [][ /\ (hostPc = "idle" /\ hostOp' = "set_activity_state" /\ hostArg' = StateOrd("Init")) =>
              /\ hostPc' = "aborted"
              /\ channel' = channel
              /\ activity_state' = activity_state
        /\ activity_state # "Init" => activity_state' # "Init" ]_vars

\* C15 witness: set_activity_state(Init) was called, and aborted, after the
\* application thread had moved activity_state away from Init.
C15_Witness ==
    /\ hostOp = "set_activity_state"
    /\ hostArg = StateOrd("Init")
    /\ hostPc = "aborted"
    /\ activity_state \in SettableStates

\* The bytes in a pipe, oldest first.
Bytes(ch) == [i \in 1..Len(ch) |-> ch[i].b]

\* The command a notification callback hands to write_cmd.
NotificationCmds(op) ==
    CASE op = "notify_low_memory" -> {"LowMemory"}
      [] op = "notify_config_changed" -> {"ConfigChanged"}
      [] op = "notify_focus_changed" -> {"GainedFocus", "LostFocus"}

\* C16: every command encodes to a code in 0..15 that decodes back to it,
\* distinct commands have distinct codes, every other i8 decodes to an
\* error; write_cmd appends the code of its command at the tail of the pipe
\* and read_cmd returns the command of the code at the head.
C16_WireRoundTrip ==
    /\ \A c \in AppCmd : AsI8(c) \in 0..15 /\ TryFromI8(AsI8(c)) = c
    /\ \A c, d \in AppCmd : AsI8(c) = AsI8(d) => c = d
    /\ \A v \in I8 \ (0..15) : TryFromI8(v) = Err
    /\ [][ \/ Bytes(channel') = Bytes(channel)
           \/ /\ appPc = "poll"
              /\ channel # << >>
              /\ Bytes(channel') = Tail(Bytes(channel))
              /\ appCmd' \in AppCmd
              /\ AsI8(appCmd') = Head(channel).b
           \/ /\ hostOp' \in Notifications
              /\ Len(channel') = Len(channel) + 1
              /\ SubSeq(Bytes(channel'), 1, Len(channel)) = Bytes(channel)
              /\ \E c \in NotificationCmds(hostOp') :
                    channel'[Len(channel')].b = AsI8(c) ]_vars

\* C16 witness: LowMemory was written before ConfigChanged and is delivered
\* first, ConfigChanged still in the pipe.
C16_Witness ==
    /\ appPc = "callback"
    /\ appCmd = "LowMemory"
    /\ channel # << >>
    /\ channel[1].b = ConfigChanged

\* C17: the shared config is always one complete snapshot of the asset
\* manager's configuration, so a config() read, itself one critical section,
\* sees the whole old or the whole new one; config changes only in the
\* pre-apply of ConfigChanged, which installs the fresh snapshot before the
\* user callback of that command runs.
C17_ConfigReplacedWhole ==
    /\ [](config \in { config_snapshot(c) : c \in ConfigVals })
    /\ [][ /\ config' # config => (appPc = "pre" /\ appCmd = "ConfigChanged")
           /\ (appPc = "pre" /\ appCmd = "ConfigChanged" /\ appPc' # appPc) =>
                 /\ appPc' = "callback"
                 /\ config' = config_snapshot(sysConfig) ]_vars

\* C17 witness: the callback of ConfigChanged runs with a snapshot other
\* than the one taken at construction.
C17_Witness ==
    /\ appPc = "callback"
    /\ appCmd = "ConfigChanged"
    /\ config = config_snapshot(1)

\* C18: when the user callback of SaveState is over, the shared slot holds
\* exactly what set_saved_state stored during that callback (nothing, if it
\* stored nothing: the earlier buffer was freed when SaveState was read);
\* request_save_state returns only after post_exec_cmd of its SaveState, and
\* what it returns is the buffer in the slot, (null, 0) only for an empty slot.
C18_ReturnsTheCallbackBuffer ==
    /\ []( (appPc = "post" /\ appCmd = "SaveState") =>
              IF stored = None THEN saved_state = NULL
              ELSE saved_state # NULL /\ heap[saved_state] = stored[1] )
    /\ [][ (Returns /\ hostOp' = "request_save_state") =>
              /\ state_saved
              /\ ~(appCmd = "SaveState" /\ appPc \in {"pre", "callback", "post"})
              /\ hostRet' = IF saved_state = NULL THEN NullRet
                            ELSE << saved_state, Len(heap[saved_state]) >> ]_vars

\* C19: when the application thread goes from the pre-apply of InitWindow to
\* the user callback, window is non-empty and is the window of the
\* set_window call the host is in; likewise for InputQueueChanged,
\* input_queue is the queue of the set_input call the host is in.
C19_ResourceReadyForCallback ==
    [][ (appPc = "pre" /\ appPc' = "callback") =>
          /\ appCmd = "InitWindow" =>
                /\ window' # NULL
                /\ hostOp = "set_window" => window' = hostArg
          /\ appCmd = "InputQueueChanged" =>
                (hostOp = "set_input" => input_queue' = hostArg) ]_vars

\* C20: while the user callback of TermWindow runs, window is still set; and
\* set_window(None) returns only when no TermWindow it wrote is still in the
\* pipe or being handled short of the end of its post-apply.
C20_WindowValidDuringTermWindow ==
    /\ []( (appPc = "callback" /\ appCmd = "TermWindow") => window # NULL )
    /\ [][ (Returns /\ hostOp' = "set_window" /\ hostArg' = NULL) =>
              /\ \A i \in 1..Len(channel') :
                    ~(channel'[i].mine /\ channel'[i].b = TermWindow)
              /\ ~(appMine' /\ appCmd' = "TermWindow") ]_vars

\* C21: a host write on a full pipe is only ever waiting for the application
\* thread to drain it, and the application thread can: whenever the host
\* thread is blocked in write_cmd and the application thread is at its poll,
\* the application thread's read_cmd can be taken.
C21_BlockedWriterCanBeDrained ==
    (hostPc = "blocked" /\ appPc = "poll") => ENABLED read_cmd

\* C22: a host call whose write fails (it begins and leaves the pipe as it
\* was) logs the failure and returns without waiting for an acknowledgment.
C22_FailedWriteAbandonsCall ==
    [][ ( /\ hostPc = "idle"
          /\ hostPc' # "idle"
          /\ hostOp' \in {"set_input", "notify_low_memory"}
          /\ channel' = channel ) =>
            /\ "write" \in errlog'
            /\ hostPc' = "returned" ]_vars

\* C23: activity_state changes only on the application thread's pre_exec_cmd
\* of Start, Resume, Pause or Stop, and that step sets it to the state of
\* the same name; no host call, no read_cmd, no post_exec_cmd and no
\* pre_exec_cmd of another command changes it.
C23_ActivityStateFrame ==
    [][ /\ activity_state' # activity_state =>
              /\ appPc = "pre" /\ appPc' = "callback"
              /\ appCmd \in {"Start", "Resume", "Pause", "Stop"}
              /\ UNCHANGED << hostPc, hostOp >>
        /\ ( /\ appPc = "pre" /\ appPc' = "callback"
             /\ appCmd \in {"Start", "Resume", "Pause", "Stop"} ) =>
              activity_state' = appCmd ]_vars

\* C23 witness: the callback of Pause runs in state Pause while the host is
\* inside another call and a further command is queued.
C23_Witness ==
    /\ appPc = "callback"
    /\ appCmd = "Pause"
    /\ activity_state = "Pause"
    /\ hostPc = "waiting"
    /\ hostOp # "set_activity_state"
    /\ channel # << >>

\* C24: from the read of Resume to the end of its user callback, what
\* saved_state() returns changes only by a set_saved_state of that callback
\* to the bytes it stored, None for no bytes (a restored buffer, or one
\* stored earlier, stays readable otherwise); post_exec_cmd
\* of Resume frees the buffer and empties the slot; and saved_state() goes
\* from None to Some only by a set_saved_state.
C24_SavedStateUntilResumeDone ==
    [][ /\ (appCmd' = "Resume" /\ appPc' \in {"pre", "callback", "post"}) =>
              \/ SavedStateNow' = SavedStateNow
              \/ /\ appPc = "callback" /\ appPc' = "callback"
                 /\ stored' # None
                 /\ SavedStateNow' = IF Len(stored'[1]) > 0 THEN stored'
                                     ELSE None
        /\ (appCmd = "Resume" /\ appPc = "post" /\ appPc' = "poll") =>
              /\ saved_state' = NULL
              /\ saved_state_size' = 0
              /\ SavedStateNow' = None
              /\ saved_state # NULL => heap'[saved_state] = Unalloc
        /\ (SavedStateNow = None /\ SavedStateNow' # None) =>
              /\ appPc = "callback" /\ appPc' = "callback"
              /\ stored' = SavedStateNow' ]_vars

\* C24 witness: the user callback of Resume is over, it stored nothing, and
\* the buffer restored at construction is still readable; post_exec_cmd of
\* Resume is the next step of the application thread.
C24_Witness ==
    /\ appPc = "post"
    /\ appCmd = "Resume"
    /\ stored = None
    /\ SavedStateNow = Some(<< 1 >>)

\* C25: at quiescence (the latest host call has returned, the pipe is empty
\* and the application thread is back at its poll with every command
\* applied), input_queue is the argument of the latest set_input and window
\* the argument of the latest set_window, stated for the call the host
\* thread has just returned from.
C25_QuiescentHandoff ==
    (hostPc = "returned" /\ channel = << >> /\ appPc = "poll") =>
        /\ hostOp = "set_input" => input_queue = hostArg
        /\ hostOp = "set_window" => window = hostArg

\* C26: the allocation of the shared state is never released while a strong
\* handle to it exists: as long as the strong count is positive, so is the
\* weak count (the stored back-reference keeps its share of it through
\* every callback).
C26_BackReferenceStaysValid ==
    strong > 0 => weak > 0

\* C27: ANativeActivity_onCreate returns only when running is true; running
\* never goes back to false; and once the application thread has set
\* running, ANativeActivity_onCreate does return, whether it had begun to
\* wait before the notification or checks running after it.
C27_StartupHandshake ==
    /\ [][ (Returns /\ hostOp' = "on_create") => running' ]_vars
    /\ [][ running => running' ]_vars
    /\ (hostOp = "on_create" /\ running)
          ~> (hostOp = "on_create" /\ hostPc = "returned")

\* C27 witness: the host thread began to wait before the application thread
\* set running, and has been notified since.
C27_Witness ==
    /\ hostOp = "on_create"
    /\ hostPc = "waiting"
    /\ running
    /\ notified
====
